---- MODULE Spec2Model ----
(***************************************************************************)
(* The module-level SQL agent of src/db_agent.py: the spec store, the URI  *)
(* builder, the connection manager, the query guard and the tool surface.  *)
(* A Python str is a sequence of one-character strings, so that strip,     *)
(* lower, split, startswith and substring search are computed as Python    *)
(* computes them.                                                          *)
(***************************************************************************)
EXTENDS Integers, Sequences, FiniteSets, TLC

(***************************************************************************)
(* Text primitives (Python str methods).                                   *)
(***************************************************************************)
UpperCase == <<"A","B","C","D","E","F","G","H","I","J","K","L","M","N","O","P","Q","R","S","T","U","V","W","X","Y","Z">>
LowerCase == <<"a","b","c","d","e","f","g","h","i","j","k","l","m","n","o","p","q","r","s","t","u","v","w","x","y","z">>
Digits == <<"0","1","2","3","4","5","6","7","8","9">>

\* str.lower() on one character
UpperIndex ==
  [c \in {UpperCase[i] : i \in 1..Len(UpperCase)} |->
     CHOOSE i \in 1..Len(UpperCase) : UpperCase[i] = c]
LowerChar(c) == IF c \in DOMAIN UpperIndex THEN LowerCase[UpperIndex[c]] ELSE c

\* str.lower()
Lower(s) == [i \in 1..Len(s) |-> LowerChar(s[i])]

\* the characters str.strip() removes
IsSpace(c) == c \in {" ", "\t", "\n", "\r"}

RECURSIVE LStrip(_)
LStrip(s) == IF s # <<>> /\ IsSpace(Head(s)) THEN LStrip(Tail(s)) ELSE s

RECURSIVE RStrip(_)
RStrip(s) ==
  IF s # <<>> /\ IsSpace(s[Len(s)]) THEN RStrip(SubSeq(s, 1, Len(s) - 1)) ELSE s

\* str.strip()
Strip(s) == LStrip(RStrip(s))

\* s.startswith(p)
StartsWith(s, p) == Len(p) <= Len(s) /\ SubSeq(s, 1, Len(p)) = p

\* p in s (substring test)
Contains(s, p) ==
  \E i \in 0..(Len(s) - Len(p)) : SubSeq(s, i + 1, i + Len(p)) = p

\* position of the first occurrence of character c in s, 0 when absent
FindChar(s, c) ==
  IF \E i \in 1..Len(s) : s[i] = c
  THEN CHOOSE i \in 1..Len(s) : s[i] = c /\ \A j \in 1..(i - 1) : s[j] # c
  ELSE 0

\* s.split(c): the pieces between the occurrences of c
RECURSIVE Split(_, _)
Split(s, c) ==
  IF FindChar(s, c) = 0 THEN <<s>>
  ELSE <<SubSeq(s, 1, FindChar(s, c) - 1)>>
         \o Split(SubSeq(s, FindChar(s, c) + 1, Len(s)), c)

\* sep.join(parts)
RECURSIVE Join(_, _)
Join(parts, sep) ==
  IF parts = <<>> THEN <<>>
  ELSE IF Len(parts) = 1 THEN parts[1]
  ELSE parts[1] \o sep \o Join(Tail(parts), sep)

\* the elements of a sequence
Range(seq) == {seq[i] : i \in 1..Len(seq)}

(***************************************************************************)
(* Python values held in the spec store.                                   *)
(***************************************************************************)
PyNone == [kind |-> "none", val |-> <<>>]
PyStr(s) == [kind |-> "str", val |-> s]
\* an int, kept as its decimal digits (what f"{port}" prints)
PyInt(digits) == [kind |-> "int", val |-> digits]
\* a list of str
PyList(items) == [kind |-> "list", val |-> items]
\* a dict of str to str, as its items in insertion order
PyDict(items) == [kind |-> "dict", val |-> items]

\* bool(v)
Truthy(v) ==
  CASE v.kind = "none" -> FALSE
    [] v.kind = "int" -> v.val # <<"0">>
    [] OTHER -> v.val # <<>>

\* d.get(k, default) on a spec dict
Get(d, k, default) == IF k \in DOMAIN d THEN d[k] ELSE default

\* d[k] = v on a spec dict
Put(d, k, v) == [x \in (DOMAIN d) \cup {k} |-> IF x = k THEN v ELSE d[x]]

\* the empty dict
EmptyDict == [x \in {} |-> PyNone]

(***************************************************************************)
(* Dialect registry.                                                       *)
(***************************************************************************)
NetFields == <<"username", "password", "host", "port", "database">>

\* the canonical schemes that have a required-field list
TemplateNames ==
  { <<"p","o","s","t","g","r","e","s","q","l","+","p","s","y","c","o","p","g","2">>, <<"p","o","s","t","g","r","e","s","q","l">>, <<"m","y","s","q","l","+","p","y","m","y","s","q","l">>, <<"m","y","s","q","l">>,
    <<"m","a","r","i","a","d","b","+","p","y","m","y","s","q","l">>, <<"m","s","s","q","l","+","p","y","o","d","b","c">>, <<"s","q","l","i","t","e">>, <<"d","u","c","k","d","b">>,
    <<"o","r","a","c","l","e","+","o","r","a","c","l","e","d","b">>, <<"s","n","o","w","f","l","a","k","e">> }

\* SUPPORTED_TEMPLATES[d], for d in TemplateNames
SUPPORTED_TEMPLATES(d) ==
  CASE d = <<"m","s","s","q","l","+","p","y","o","d","b","c">> -> NetFields \o <<"driver">>
    [] d \in {<<"s","q","l","i","t","e">>, <<"d","u","c","k","d","b">>} -> <<"database">>
    [] d = <<"o","r","a","c","l","e","+","o","r","a","c","l","e","d","b">> -> <<"username", "password", "host", "port", "service_name">>
    [] d = <<"s","n","o","w","f","l","a","k","e">> -> <<"username", "password", "account", "database", "schema">>
    [] OTHER -> NetFields

AliasNames ==
  { <<"p","o","s","t","g","r","e","s">>, <<"p","o","s","t","g","r","e","s","q","l">>, <<"p","g">>, <<"m","y","s","q","l">>, <<"m","a","r","i","a","d","b">>, <<"m","s","s","q","l">>,
    <<"s","q","l","s","e","r","v","e","r">>, <<"s","q","l","i","t","e">>, <<"d","u","c","k","d","b">>, <<"o","r","a","c","l","e">>, <<"s","n","o","w","f","l","a","k","e">> }

\* ALIAS_TO_DIALECT[a], for a in AliasNames
ALIAS_TO_DIALECT(a) ==
  CASE a \in {<<"p","o","s","t","g","r","e","s">>, <<"p","o","s","t","g","r","e","s","q","l">>, <<"p","g">>} -> <<"p","o","s","t","g","r","e","s","q","l","+","p","s","y","c","o","p","g","2">>
    [] a = <<"m","y","s","q","l">> -> <<"m","y","s","q","l","+","p","y","m","y","s","q","l">>
    [] a = <<"m","a","r","i","a","d","b">> -> <<"m","a","r","i","a","d","b","+","p","y","m","y","s","q","l">>
    [] a \in {<<"m","s","s","q","l">>, <<"s","q","l","s","e","r","v","e","r">>} -> <<"m","s","s","q","l","+","p","y","o","d","b","c">>
    [] a = <<"o","r","a","c","l","e">> -> <<"o","r","a","c","l","e","+","o","r","a","c","l","e","d","b">>
    [] OTHER -> a

SENSITIVE_KEYS == {"password", "secret", "token"}

\* an alias maps to its scheme, whatever its letter case; anything else is
\* returned stripped and otherwise unchanged
_normalize_dialect(dialect) ==
  LET d == Strip(dialect)
  IN IF Lower(d) \in AliasNames THEN ALIAS_TO_DIALECT(Lower(d)) ELSE d

\* _needs as it would be if only an absent key counted as missing
_needs_AbsentOnly(key, specs) == key \notin DOMAIN specs

\* a field counts as missing when absent, None, "" or []
_needs(key, specs) ==
  \/ key \notin DOMAIN specs
  \/ specs[key] \in {PyNone, PyStr(<<>>), PyList(<<>>)}

(***************************************************************************)
(* URI builder.                                                            *)
(***************************************************************************)
\* characters urllib.parse.quote never encodes
Unreserved == Range(UpperCase) \cup Range(LowerCase) \cup Range(Digits) \cup {"_", ".", "-", "~"}

\* the percent-encoding of one reserved character
PctCode(c) ==
  CASE c = "@" -> <<"%","4","0">> [] c = ":" -> <<"%","3","A">> [] c = "/" -> <<"%","2","F">>
    [] c = " " -> <<"%","2","0">> [] c = "?" -> <<"%","3","F">> [] c = "#" -> <<"%","2","3">>
    [] c = "&" -> <<"%","2","6">> [] c = "=" -> <<"%","3","D">> [] c = "+" -> <<"%","2","B">>
    [] c = "%" -> <<"%","2","5">> [] c = ";" -> <<"%","3","B">> [] c = "," -> <<"%","2","C">>
    [] c = "*" -> <<"%","2","A">> [] c = "'" -> <<"%","2","7">>
    [] OTHER -> <<"%", "?", "?">>

\* urllib.parse.quote(s): '/' is safe
RECURSIVE Quote(_)
Quote(s) ==
  IF s = <<>> THEN <<>>
  ELSE (IF Head(s) \in Unreserved \cup {"/"} THEN <<Head(s)>> ELSE PctCode(Head(s)))
         \o Quote(Tail(s))

\* urllib.parse.quote_plus(s): nothing is safe, a space becomes '+'
RECURSIVE QuotePlus(_)
QuotePlus(s) ==
  IF s = <<>> THEN <<>>
  ELSE (IF Head(s) \in Unreserved THEN <<Head(s)>>
        ELSE IF Head(s) = " " THEN <<"+">> ELSE PctCode(Head(s)))
         \o QuotePlus(Tail(s))

\* urllib.parse.urlencode(q) for a dict given as its items
RECURSIVE UrlEncode(_)
UrlEncode(items) ==
  IF items = <<>> THEN <<>>
  ELSE QuotePlus(items[1][1]) \o <<"=">> \o QuotePlus(items[1][2])
         \o (IF Len(items) > 1 THEN <<"&">> ELSE <<>>) \o UrlEncode(Tail(items))

\* q[k] = v on a dict given as its items: an existing key keeps its place
DictSet(items, k, v) ==
  IF \E i \in 1..Len(items) : items[i][1] = k
  THEN [i \in 1..Len(items) |-> IF items[i][1] = k THEN <<k, v>> ELSE items[i]]
  ELSE Append(items, <<k, v>>)

\* q.update(params)
RECURSIVE DictUpdate(_, _)
DictUpdate(items, more) ==
  IF more = <<>> THEN items
  ELSE DictUpdate(DictSet(items, more[1][1], more[1][2]), Tail(more))

\* f"{v}" for the values a field can hold here (a str or an int)
Fmt(v) == IF v.kind = "none" THEN <<"N","o","n","e">> ELSE v.val

Ok(u) == [ok |-> TRUE, val |-> u]
\* a raised exception: its type and the names its message lists
Raised(type, names) == [ok |-> FALSE, val |-> <<type, names>>]

\* "?" + urlencode(q) if q else ""
QueryString(q) == IF q = <<>> THEN <<>> ELSE <<"?">> \o UrlEncode(q)

\* f"{user}:{pwd}@" if user else ""
Auth(user, pwd) == IF user = <<>> THEN <<>> ELSE user \o <<":">> \o pwd \o <<"@">>

\* the URI for the collected specs, or the exception _assemble_uri raises
_assemble_uri(specs) ==
  LET dspec == Get(specs, "dialect", PyStr(<<>>)) IN
  IF dspec.kind # "str" THEN Raised("AttributeError", <<>>) ELSE
  LET dialect == _normalize_dialect(dspec.val)
      required == IF dialect \in TemplateNames THEN SUPPORTED_TEMPLATES(dialect) ELSE <<>>
      missing == SelectSeq(required, LAMBDA k : _needs(k, specs))
      pspec == Get(specs, "params", PyNone)
      params == IF Truthy(pspec) THEN pspec.val ELSE <<>>
      badParams == Truthy(pspec) /\ pspec.kind # "dict"
      uspec == Get(specs, "username", PyStr(<<>>))
      wspec == Get(specs, "password", PyStr(<<>>))
      badAuth == uspec.kind # "str" \/ wspec.kind # "str"
      user == Quote(uspec.val)
      pwd == Quote(wspec.val)
  IN
  IF dialect = <<>> THEN Raised("ValueError", <<"dialect">>)
  ELSE IF missing # <<>> THEN Raised("ValueError", missing)
  ELSE IF StartsWith(dialect, <<"s","q","l","i","t","e">>) THEN
    IF "database" \notin DOMAIN specs THEN Raised("KeyError", <<"database">>)
    ELSE IF specs["database"].kind # "str" THEN Raised("AttributeError", <<>>)
    ELSE IF specs["database"].val = <<":","m","e","m","o","r","y",":">> THEN Ok(<<"s","q","l","i","t","e",":","/","/","/",":","m","e","m","o","r","y",":">>)
    ELSE Ok(<<"s","q","l","i","t","e",":","/","/","/">> \o specs["database"].val)
  ELSE IF StartsWith(dialect, <<"d","u","c","k","d","b">>) THEN
    IF "database" \notin DOMAIN specs THEN Raised("KeyError", <<"database">>)
    ELSE IF specs["database"] = PyStr(<<":","m","e","m","o","r","y",":">>) THEN Ok(<<"d","u","c","k","d","b",":","/","/","/",":","m","e","m","o","r","y",":">>)
    ELSE Ok(<<"d","u","c","k","d","b",":","/","/","/">> \o Fmt(specs["database"]))
  ELSE IF StartsWith(dialect, <<"s","n","o","w","f","l","a","k","e">>) THEN
    IF "username" \in DOMAIN specs /\ uspec.kind # "str" THEN Raised("TypeError", <<>>)
    ELSE IF wspec.kind # "str" THEN Raised("TypeError", <<>>)
    ELSE IF {"account", "database", "schema"} \ DOMAIN specs # {}
      THEN Raised("KeyError", <<>>)
    ELSE IF badParams THEN Raised("TypeError", <<>>)
    ELSE
      LET warehouse == Get(specs, "warehouse", PyNone)
          role == Get(specs, "role", PyNone)
          q1 == IF Truthy(warehouse) THEN DictSet(params, <<"w","a","r","e","h","o","u","s","e">>, Fmt(warehouse)) ELSE params
          q == IF Truthy(role) THEN DictSet(q1, <<"r","o","l","e">>, Fmt(role)) ELSE q1
      IN Ok(<<"s","n","o","w","f","l","a","k","e",":","/","/">> \o Auth(user, pwd) \o Fmt(specs["account"]) \o <<"/">>
              \o Fmt(specs["database"]) \o <<"/">> \o Fmt(specs["schema"]) \o QueryString(q))
  ELSE IF StartsWith(dialect, <<"o","r","a","c","l","e">>) THEN
    IF "username" \in DOMAIN specs /\ uspec.kind # "str" THEN Raised("TypeError", <<>>)
    ELSE IF wspec.kind # "str" THEN Raised("TypeError", <<>>)
    ELSE IF {"host", "service_name"} \ DOMAIN specs # {} THEN Raised("KeyError", <<>>)
    ELSE IF badParams THEN Raised("TypeError", <<>>)
    ELSE
      LET port == Get(specs, "port", PyInt(<<"1","5","2","1">>))
          q == DictUpdate(<< <<<<"s","e","r","v","i","c","e","_","n","a","m","e">>, Fmt(specs["service_name"])>> >>, params)
      IN Ok(<<"o","r","a","c","l","e","+","o","r","a","c","l","e","d","b",":","/","/">> \o Auth(user, pwd) \o Fmt(specs["host"]) \o <<":">>
              \o Fmt(port) \o <<"/">> \o QueryString(q))
  ELSE IF StartsWith(dialect, <<"m","s","s","q","l","+","p","y","o","d","b","c">>) THEN
    IF badAuth \/ badParams THEN Raised("TypeError", <<>>)
    ELSE
      LET host == Fmt(Get(specs, "host", PyStr(<<>>)))
          port == Get(specs, "port", PyNone)
          server == IF Truthy(port) THEN host \o <<",">> \o Fmt(port) ELSE host
          q == IF "driver" \in DOMAIN specs
               THEN DictSet(params, <<"d","r","i","v","e","r">>, Fmt(specs["driver"])) ELSE params
      IN Ok(<<"m","s","s","q","l","+","p","y","o","d","b","c",":","/","/">> \o Auth(user, pwd) \o server \o <<"/">>
              \o Fmt(Get(specs, "database", PyStr(<<>>))) \o QueryString(q))
  ELSE
    IF badAuth \/ badParams THEN Raised("TypeError", <<>>)
    ELSE
      LET host == Fmt(Get(specs, "host", PyStr(<<>>)))
          pt == Get(specs, "port", PyNone)
          port == IF Truthy(pt) THEN <<":">> \o Fmt(pt) ELSE <<>>
      IN Ok(dialect \o <<":","/","/">> \o Auth(user, pwd) \o host \o port \o <<"/">>
              \o Fmt(Get(specs, "database", PyStr(<<>>))) \o QueryString(params))

\* s.replace(old, new): every occurrence, left to right
RECURSIVE ReplaceAll(_, _, _)
ReplaceAll(s, old, new) ==
  IF Len(s) < Len(old) \/ old = <<>> THEN s
  ELSE IF StartsWith(s, old)
    THEN new \o ReplaceAll(SubSeq(s, Len(old) + 1, Len(s)), old, new)
  ELSE <<Head(s)>> \o ReplaceAll(Tail(s), old, new)

\* s.replace(old, new, 1): the first occurrence only
RECURSIVE ReplaceFirst(_, _, _)
ReplaceFirst(s, old, new) ==
  IF Len(s) < Len(old) \/ old = <<>> THEN s
  ELSE IF StartsWith(s, old) THEN new \o SubSeq(s, Len(old) + 1, Len(s))
  ELSE <<Head(s)>> \o ReplaceFirst(Tail(s), old, new)

\* s.rstrip(chars)
RECURSIVE RStripChars(_, _)
RStripChars(s, chars) ==
  IF s # <<>> /\ s[Len(s)] \in chars
  THEN RStripChars(SubSeq(s, 1, Len(s) - 1), chars) ELSE s

\* the echo of build_uri as it would be without masking
MaskUri_Unmasked(uri) == uri

\* the password-masking echo of build_uri
MaskUri(uri) ==
  IF ~(Contains(uri, <<":">>) /\ Contains(uri, <<"@">>)) THEN uri
  ELSE
    LET before_at == Split(uri, "@")[1] IN
    IF ~Contains(before_at, <<":">>) THEN uri
    ELSE
      LET rest == SubSeq(before_at, FindChar(before_at, ":") + 1, Len(before_at)) IN
      IF rest = <<>> THEN uri
      ELSE ReplaceAll(uri, <<":">> \o rest \o <<"@">>, <<":","*","*","*","@">>)

(***************************************************************************)
(* Query guard.  sqlparse is modelled on texts of letters, digits, '_',    *)
(* blanks, newlines and punctuation (no quotes, no comments): its lexer    *)
(* cuts such a text into maximal words and single other characters, and    *)
(* its splitter ends a statement at a ';' outside parentheses.             *)
(***************************************************************************)
IsWordChar(c) == c \in Range(UpperCase) \cup Range(LowerCase) \cup Range(Digits) \cup {"_"}

\* length of the longest prefix of s made of word characters
RECURSIVE WordLen(_)
WordLen(s) == IF s # <<>> /\ IsWordChar(Head(s)) THEN 1 + WordLen(Tail(s)) ELSE 0

\* sqlparse's lexer: the tokens of a text, in order
RECURSIVE Lex(_)
Lex(s) ==
  IF s = <<>> THEN <<>>
  ELSE IF IsWordChar(Head(s))
    THEN <<SubSeq(s, 1, WordLen(s))>> \o Lex(SubSeq(s, WordLen(s) + 1, Len(s)))
  ELSE <<<<Head(s)>>>> \o Lex(Tail(s))

\* a token the statement splitter swallows after a ';' (a newline is not one)
IsBlankToken(t) == t \in {<<" ">>, <<"\t">>}

\* a whitespace token
IsWhitespaceToken(t) == Len(t) = 1 /\ IsSpace(t[1])

\* sqlparse's statement splitter, up to the end of the first statement:
\* level counts open parentheses, ended says a top-level ';' was seen
RECURSIVE FirstStatement(_, _, _)
FirstStatement(tokens, level, ended) ==
  IF tokens = <<>> THEN <<>>
  ELSE IF ended /\ ~IsBlankToken(Head(tokens)) THEN <<>>
  ELSE
    LET t == Head(tokens)
        lv == level + (IF t = <<"(">> THEN 1 ELSE IF t = <<")">> THEN -1 ELSE 0)
    IN <<t>> \o FirstStatement(Tail(tokens), lv, ended \/ (lv <= 0 /\ t = <<";">>))

\* parsed[0].flatten() of sqlparse.parse(sql); <<>> when parse returns nothing
\* (a text that is empty or all whitespace)
Parsed0(sql) ==
  IF \A i \in 1..Len(Lex(sql)) : IsWhitespaceToken(Lex(sql)[i]) THEN <<>>
  ELSE FirstStatement(Lex(sql), 0, FALSE)

banned ==
  { <<"i","n","s","e","r","t">>, <<"u","p","d","a","t","e">>, <<"d","e","l","e","t","e">>, <<"d","r","o","p">>, <<"a","l","t","e","r">>, <<"t","r","u","n","c","a","t","e">>,
    <<"c","r","e","a","t","e">>, <<"g","r","a","n","t">>, <<"r","e","v","o","k","e">> }

\* true when the text passes the read-only guard
_is_read_only(sql) ==
  LET parsed0 == Parsed0(sql)
      tokens == [i \in 1..Len(parsed0) |-> Lower(parsed0[i])]
      text == Join(tokens, <<" ">>)
  IN IF parsed0 = <<>> THEN TRUE
     ELSE ~(\E kw \in banned : Contains(text, kw))

(***************************************************************************)
(* The database behind a URI (the environment of SQLDatabase.from_uri).    *)
(***************************************************************************)
Customers == <<"C","u","s","t","o","m","e","r","s">>
Orders == <<"O","r","d","e","r","s">>
Logs == <<"L","o","g","s">>

\* the tables a database holds: none in a fresh in-memory database
TablesAt(u) ==
  IF Len(u) >= 8 /\ SubSeq(u, Len(u) - 7, Len(u)) = <<":","m","e","m","o","r","y",":">> THEN {}
  ELSE {Customers, Orders}

\* the SQLAlchemy dialect name of a URI: its scheme up to '+' or ':'
DialectName(u) ==
  LET stop == CHOOSE i \in 1..(Len(u) + 1) :
                /\ i = Len(u) + 1 \/ u[i] \in {"+", ":"}
                /\ \A j \in 1..(i - 1) : u[j] \notin {"+", ":"}
  IN SubSeq(u, 1, stop - 1)

(***************************************************************************)
(* State of the module-level agent.                                        *)
(***************************************************************************)
VARIABLES
  specs,           \* state["specs"]: the collected pieces
  uri,             \* state["uri"]: PyNone or the built URI
  connected,       \* state["connected"]
  allowed_tables,  \* state["allowed_tables"]: PyNone or the whitelist
  db,              \* _db_ref["db"]: the live handle, if any
  everBuilt,       \* history: some build_uri has succeeded
  conv,            \* history: what each conversation has supplied, who wrote
                   \* each field last, who built last and who called last
  out              \* the last tool call: its argument, its outcome and the
                   \* calls it made on the database library

vars == <<specs, uri, connected, allowed_tables, db, everBuilt, conv, out>>

NoDb == [open |-> FALSE, uri |-> <<>>, include |-> PyNone]

\* the handle SQLDatabase.from_uri(u, include_tables=include) returns
Handle(u, include) == [open |-> TRUE, uri |-> u, include |-> include]

\* db.get_usable_table_names()
Usable(h) == IF Truthy(h.include) THEN Range(h.include.val) ELSE TablesAt(h.uri)

\* the conversations (thread ids) of the runs in which two chat sessions
\* are followed; in the other runs the caller is not followed
Conversations == {"c1", "c2"}

NoConv ==
  [asked |-> [c \in Conversations |-> EmptyDict], writer |-> EmptyDict,
   builder |-> "none", caller |-> "none"]

\* what a tool call leaves behind
Outcome(tool, arg, kind, msg, detail, calls) ==
  [tool |-> tool, arg |-> arg, kind |-> kind, msg |-> msg, detail |-> detail, calls |-> calls]

Init ==
  /\ specs = EmptyDict
  /\ uri = PyNone
  /\ connected = FALSE
  /\ allowed_tables = PyNone
  /\ db = NoDb
  /\ everBuilt = FALSE
  /\ conv = NoConv
  /\ out = Outcome("none", PyNone, "return", "", PyNone, <<>>)

(***************************************************************************)
(* Spec store tools.                                                       *)
(***************************************************************************)
SensitiveWords == {<<"p","a","s","s","w","o","r","d">>, <<"s","e","c","r","e","t">>, <<"t","o","k","e","n">>}

\* the masked form of one value in an echo
_mask(v) ==
  IF v.kind = "str" /\ v.val # <<>>
     /\ (Contains(Lower(v.val), <<"p","a","s","s","w","o","r","d","=">>) \/ Contains(Lower(v.val), <<"p","w","d","=">>))
    THEN PyStr(<<"*","*","*">>)
  ELSE IF v.kind = "str" /\ v.val # <<>> /\ Lower(v.val) \in SensitiveWords
    THEN PyStr(<<"*","*","*">>)
  ELSE v

\* the masked echo of the spec store
Safe(sp) ==
  [k \in DOMAIN sp |->
     IF k \in SENSITIVE_KEYS \/ k = "password" THEN PyStr(<<"*","*","*">>) ELSE _mask(sp[k])]

\* set_spec as it would be if storing a field also dropped the built URI
set_spec_DropsUri(key, value) ==
  /\ specs' = Put(specs, key, value)
  /\ allowed_tables' = IF key = "allowed_tables" THEN value ELSE allowed_tables
  /\ uri' = PyNone
  /\ out' = Outcome("set_spec", <<key, value>>, "return", "Spec set.",
                    Safe(Put(specs, key, value)), <<>>)
  /\ UNCHANGED <<connected, db, everBuilt>>

\* set_spec as it would be without its two type checks
set_spec_NoValidation(key, value) ==
  /\ specs' = Put(specs, key, value)
  /\ allowed_tables' = IF key = "allowed_tables" THEN value ELSE allowed_tables
  /\ out' = Outcome("set_spec", <<key, value>>, "return", "Spec set.",
                    Safe(Put(specs, key, value)), <<>>)
  /\ UNCHANGED <<uri, connected, db, everBuilt>>

\* set_spec as it would be if a field already stored were never overwritten
set_spec_KeepsFirst(key, value) ==
  LET stored == IF key \in DOMAIN specs THEN specs[key] ELSE value IN
  /\ specs' = Put(specs, key, stored)
  /\ allowed_tables' = IF key = "allowed_tables" THEN stored ELSE allowed_tables
  /\ out' = Outcome("set_spec", <<key, value>>, "return", "Spec set.",
                    Safe(Put(specs, key, stored)), <<>>)
  /\ UNCHANGED <<uri, connected, db, everBuilt>>

set_spec(key, value) ==
  IF key = "params" /\ value.kind # "dict" THEN
    /\ out' = Outcome("set_spec", <<key, value>>, "return",
                      "For 'params', provide a JSON object (dict).", PyNone, <<>>)
    /\ UNCHANGED <<specs, uri, connected, allowed_tables, db, everBuilt>>
  ELSE IF key = "allowed_tables" /\ value.kind # "list" THEN
    /\ out' = Outcome("set_spec", <<key, value>>, "return",
                      "For 'allowed_tables', provide a JSON array of table names.",
                      PyNone, <<>>)
    /\ UNCHANGED <<specs, uri, connected, allowed_tables, db, everBuilt>>
  ELSE
    /\ specs' = Put(specs, key, value)
    /\ allowed_tables' = IF key = "allowed_tables" THEN value ELSE allowed_tables
    /\ out' = Outcome("set_spec", <<key, value>>, "return", "Spec set.",
                      Safe(Put(specs, key, value)), <<>>)
    /\ UNCHANGED <<uri, connected, db, everBuilt>>

show_missing ==
  /\ UNCHANGED <<specs, uri, connected, allowed_tables, db, everBuilt>>
  /\ out' =
       IF ~Truthy(Get(specs, "dialect", PyNone)) THEN
         Outcome("show_missing", PyNone, "return", "Missing: dialect", PyNone, <<>>)
       ELSE IF specs["dialect"].kind # "str" THEN
         Outcome("show_missing", PyNone, "raise", "AttributeError", PyNone, <<>>)
       ELSE
         LET dialect == _normalize_dialect(specs["dialect"].val) IN
         IF dialect \notin TemplateNames THEN
           Outcome("show_missing", PyNone, "return", "Dialect not in templates.",
                   dialect, <<>>)
         ELSE
           LET missing == SelectSeq(SUPPORTED_TEMPLATES(dialect), LAMBDA k : _needs(k, specs))
           IN IF missing = <<>>
              THEN Outcome("show_missing", PyNone, "return",
                           "All required fields present.", <<>>, <<>>)
              ELSE Outcome("show_missing", PyNone, "return", "Missing:", missing, <<>>)

(***************************************************************************)
(* URI and connection tools.                                               *)
(***************************************************************************)
\* the body of build_uri on spec store sp with stored URI u: the URI stored
\* afterwards and the returned message
BuildUri(sp, u) ==
  LET r == _assemble_uri(sp) IN
  IF r.ok
  THEN [uri |-> PyStr(r.val), ok |-> TRUE, msg |-> "URI built:", detail |-> MaskUri(r.val)]
  ELSE [uri |-> u, ok |-> FALSE, msg |-> "Could not build URI:", detail |-> r.val]

build_uri ==
  LET b == BuildUri(specs, uri) IN
  /\ uri' = b.uri
  /\ everBuilt' = (everBuilt \/ b.ok)
  /\ out' = Outcome("build_uri", PyNone, "return", b.msg, b.detail, <<>>)
  /\ UNCHANGED <<specs, connected, allowed_tables, db>>

\* SQLDatabase.from_uri and the sanity call succeed: the server accepts the
\* connection and every table of a non-empty include list exists
Opens(u, include, accept) ==
  accept /\ (Truthy(include) => Range(include.val) \subseteq TablesAt(u))

\* connect_db as it would be without its "No URI yet" guard
ConnectDb_NoUriGuard(u, include, h, c, accept) ==
  IF Opens(u.val, include, accept) THEN
    [db |-> Handle(u.val, include), connected |-> TRUE, msg |-> "Connected.",
     detail |-> include,
     calls |-> <<[op |-> "from_uri", arg |-> <<u.val, include>>],
                 [op |-> "get_usable_table_names", arg |-> <<>>]>>]
  ELSE
    [db |-> h, connected |-> c, msg |-> "Connection failed:",
     detail |-> PyNone, calls |-> <<[op |-> "from_uri", arg |-> <<u.val, include>>]>>]

\* connect_db as it would be if a success stored the handle but left the
\* connected flag as it was
ConnectDb_KeepsFlag(u, include, h, c, accept) ==
  IF ~Truthy(u) THEN
    [db |-> h, connected |-> c, msg |-> "No URI yet. Call build_uri first.",
     detail |-> PyNone, calls |-> <<>>]
  ELSE IF Opens(u.val, include, accept) THEN
    [db |-> Handle(u.val, include), connected |-> c, msg |-> "Connected.",
     detail |-> include,
     calls |-> <<[op |-> "from_uri", arg |-> <<u.val, include>>],
                 [op |-> "get_usable_table_names", arg |-> <<>>]>>]
  ELSE
    [db |-> h, connected |-> c, msg |-> "Connection failed:",
     detail |-> PyNone, calls |-> <<[op |-> "from_uri", arg |-> <<u.val, include>>]>>]

\* the body of connect_db: the handle and flag held afterwards, the returned
\* message and the library calls made
ConnectDb(u, include, h, c, accept) ==
  IF ~Truthy(u) THEN
    [db |-> h, connected |-> c, msg |-> "No URI yet. Call build_uri first.",
     detail |-> PyNone, calls |-> <<>>]
  ELSE IF Opens(u.val, include, accept) THEN
    [db |-> Handle(u.val, include), connected |-> TRUE, msg |-> "Connected.",
     detail |-> include,
     calls |-> <<[op |-> "from_uri", arg |-> <<u.val, include>>],
                 [op |-> "get_usable_table_names", arg |-> <<>>]>>]
  ELSE
    [db |-> h, connected |-> c, msg |-> "Connection failed:",
     detail |-> PyNone, calls |-> <<[op |-> "from_uri", arg |-> <<u.val, include>>]>>]

connect_db ==
  \E accept \in BOOLEAN :
    LET c == ConnectDb(uri, allowed_tables, db, connected, accept) IN
    /\ db' = c.db
    /\ connected' = c.connected
    /\ out' = Outcome("connect_db", PyNone, "return", c.msg, c.detail, c.calls)
    /\ UNCHANGED <<specs, uri, allowed_tables, everBuilt>>

\* the reply when the build left no URI ("URI olusturulamadi" stands for the
\* source's Turkish text) or, after the connect step, both replies
connect_with_specs(sp) ==
  LET b == BuildUri(sp, uri) IN
  /\ specs' = sp
  /\ uri' = b.uri
  /\ everBuilt' = (everBuilt \/ b.ok)
  /\ UNCHANGED allowed_tables
  /\ IF ~Truthy(b.uri) THEN
       /\ out' = Outcome("connect_with_specs", sp, "return", "URI olusturulamadi:",
                         [build |-> b.msg, built |-> b.ok, echo |-> b.detail], <<>>)
       /\ UNCHANGED <<db, connected>>
     ELSE
       \E accept \in BOOLEAN :
         LET c == ConnectDb(b.uri, allowed_tables, db, connected, accept) IN
         /\ db' = c.db
         /\ connected' = c.connected
         /\ out' = Outcome("connect_with_specs", sp, "return", c.msg,
                           [build |-> b.msg, built |-> b.ok, echo |-> b.detail], c.calls)

(***************************************************************************)
(* The arguments the agent runtime passes in this model.                   *)
(***************************************************************************)
SetSpecArgs ==
  { <<"dialect", PyStr(<<"s","q","l","i","t","e">>)>>,
    <<"database", PyStr(<<":","m","e","m","o","r","y",":">>)>>, <<"database", PyStr(<<"w",".","d","b">>)>>,
    <<"database", PyStr(<<>>)>>,
    <<"allowed_tables", PyList(<<Customers>>)>>, <<"allowed_tables", PyList(<<>>)>>,
    <<"allowed_tables", PyStr(Customers)>>,
    <<"params", PyStr(<<"E","n","c","r","y","p","t","=","n","o">>)>> }

ConnectSpecs ==
  { EmptyDict,
    [k \in {"dialect", "database", "allowed_tables"} |->
       CASE k = "dialect" -> PyStr(<<"s","q","l","i","t","e">>)
         [] k = "database" -> PyStr(<<"w",".","d","b">>)
         [] OTHER -> PyList(<<Customers>>)] }

TableRequests == { <<"C","u","s","t","o","m","e","r","s">>, <<"C","u","s","t","o","m","e","r","s",","," ","O","r","d","e","r","s">>, <<" ",",">> }

SampleQueries ==
  { <<"s","e","l","e","c","t"," ","i","d"," ","f","r","o","m"," ","O","r","d","e","r","s">>, <<"D","R","O","P"," ","T","A","B","L","E"," ","O","r","d","e","r","s">>, <<"s","e","l","e","c","t"," ","1",";"," ","d","r","o","p"," ","t","a","b","l","e"," ","O","r","d","e","r","s">> }

\* the statements of the runs that follow the row cap: texts made of at most
\* MaxLimitPieces pieces
MaxLimitPieces == 3

LimitPieces ==
  { <<"s","e","l","e","c","t"," ">>, <<"S","E","L","E","C","T"," ">>, <<"i","d"," ","f","r","o","m"," ","t">>, <<"c","o","u","n","t","(","*",")"," ","f","r","o","m"," ","t">>, <<" ","l","i","m","i","t"," ","5">>,
    <<"\n","l","i","m","i","t"," ","5">>, <<"t","o","p"," ","5"," ">>, <<";">>, <<"\n">> }

RECURSIVE LimitTexts(_)
LimitTexts(n) ==
  IF n = 0 THEN {<<>>}
  ELSE {p \o t : p \in LimitPieces, t \in LimitTexts(n - 1)}

LimitQueries == UNION {LimitTexts(n) : n \in 0..MaxLimitPieces}

(***************************************************************************)
(* Query tools.                                                            *)
(***************************************************************************)
\* _assert_connected() passes
_assert_connected == connected /\ db.open

NotConnected(tool, arg) ==
  Outcome(tool, arg, "raise", "Not connected. Use build_uri then connect_db.", PyNone, <<>>)

Blocked(tool, arg) ==
  Outcome(tool, arg, "return", "BLOCKED: Only read-only queries are permitted.", PyNone, <<>>)

list_sql_database_tables ==
  /\ UNCHANGED <<specs, uri, connected, allowed_tables, db, everBuilt>>
  /\ out' =
       IF ~_assert_connected THEN NotConnected("list_sql_database_tables", PyNone)
       ELSE Outcome("list_sql_database_tables", PyNone, "return",
                    IF Usable(db) = {} THEN "(no usable tables found)" ELSE "names",
                    Usable(db), <<[op |-> "get_usable_table_names", arg |-> <<>>]>>)

\* [t.strip() for t in table_names.split(",") if t.strip()]
Requested(table_names) ==
  LET parts == Split(table_names, ",")
      stripped == [i \in 1..Len(parts) |-> Strip(parts[i])]
  IN SelectSeq(stripped, LAMBDA t : t # <<>>)

\* the whitelist test as it would be if only the first requested name were tested
NotAllowed_FirstOnly(req, include) ==
  IF Truthy(include) /\ req # <<>> /\ req[1] \notin Range(include.val)
  THEN <<req[1]>> ELSE <<>>

\* the requested names the whitelist does not hold, in request order
NotAllowed(req, include) ==
  IF Truthy(include) THEN SelectSeq(req, LAMBDA t : t \notin Range(include.val)) ELSE <<>>

\* get_table_info returns the schema text or raises
info_sql_database(table_names) ==
  /\ UNCHANGED <<specs, uri, connected, allowed_tables, db, everBuilt>>
  /\ LET req == Requested(table_names)
         not_allowed == NotAllowed(req, allowed_tables)
         call == <<[op |-> "get_table_info", arg |-> Join(req, <<","," ">>)]>>
     IN out' \in
       IF ~_assert_connected THEN {NotConnected("info_sql_database", table_names)}
       ELSE IF not_allowed # <<>> THEN
         {Outcome("info_sql_database", table_names, "return", "Table(s) not allowed:",
                  [not_allowed |-> not_allowed, allowed |-> allowed_tables.val], <<>>)}
       ELSE
         {Outcome("info_sql_database", table_names, "return", "schema", req, call),
          Outcome("info_sql_database", table_names, "raise", "ValueError", PyNone, call)}

\* the verdicts of the read-only guard on the statements of this model
ReadOnly == [q \in SampleQueries \cup LimitQueries |-> _is_read_only(q)]

\* the checker's LLM call returns its reply or raises
query_sql_checker(query) ==
  /\ UNCHANGED <<specs, uri, connected, allowed_tables, db, everBuilt>>
  /\ out' \in
       IF ~ReadOnly[query] THEN {Blocked("query_sql_checker", query)}
       ELSE IF ~_assert_connected THEN {NotConnected("query_sql_checker", query)}
       ELSE {Outcome("query_sql_checker", query, "return", "checked", PyNone, <<>>),
             Outcome("query_sql_checker", query, "raise", "Exception", PyNone, <<>>)}

\* the row-cap condition of query_sql_db
NeedsLimit(query) ==
  LET ql == Lower(query) IN
  /\ Contains(ql, <<"s","e","l","e","c","t">>)
  /\ ~Contains(ql, <<"c","o","u","n","t","(">>)
  /\ ~Contains(ql, <<" ","l","i","m","i","t"," ">>)
  /\ ~Contains(ql, <<" ","t","o","p"," ">>)

LimitDialects == {<<"p","o","s","t","g","r","e","s","q","l">>, <<"m","y","s","q","l">>, <<"s","q","l","i","t","e">>, <<"d","u","c","k","d","b">>}

\* the statement query_sql_db hands to db.run on a handle of that dialect
AutoLimit(query, dialect_name) ==
  IF ~NeedsLimit(query) THEN query
  ELSE IF dialect_name \in LimitDialects THEN RStripChars(query, {";", " "}) \o <<" ","L","I","M","I","T"," ","5","0">>
  ELSE IF StartsWith(Strip(Lower(query)), <<"s","e","l","e","c","t"," ">>)
    THEN ReplaceFirst(query, <<"s","e","l","e","c","t"," ">>, <<"S","E","L","E","C","T"," ","T","O","P"," ","5","0"," ">>)
  ELSE query

\* query_sql_db as it would be with the read-only check made first, as in
\* query_sql_checker
query_sql_db_GuardFirst(query) ==
  /\ UNCHANGED <<specs, uri, connected, allowed_tables, db, everBuilt>>
  /\ LET call == <<[op |-> "run", arg |-> AutoLimit(query, DialectName(db.uri))]>>
         ran == {Outcome("query_sql_db", query, "return", "rows", PyNone, call),
                 Outcome("query_sql_db", query, "raise", "Exception", PyNone, call)}
     IN out' \in
       IF ~ReadOnly[query] THEN {Blocked("query_sql_db", query)}
       ELSE IF ~_assert_connected THEN {NotConnected("query_sql_db", query)}
       ELSE IF NeedsLimit(query)
         THEN ran \cup {Outcome("query_sql_db", query, "raise", "AttributeError", PyNone, <<>>)}
       ELSE ran

\* db.run returns the rows or raises.  Reading the dialect name raises
\* AttributeError when the handle's dialect attribute is a plain str (as in
\* langchain_community's SQLDatabase) and succeeds when it has a .name
query_sql_db(query) ==
  /\ UNCHANGED <<specs, uri, connected, allowed_tables, db, everBuilt>>
  /\ LET call == <<[op |-> "run", arg |-> AutoLimit(query, DialectName(db.uri))]>>
         ran == {Outcome("query_sql_db", query, "return", "rows", PyNone, call),
                 Outcome("query_sql_db", query, "raise", "Exception", PyNone, call)}
     IN out' \in
       IF ~_assert_connected THEN {NotConnected("query_sql_db", query)}
       ELSE IF ~ReadOnly[query] THEN {Blocked("query_sql_db", query)}
       ELSE IF NeedsLimit(query)
         THEN ran \cup {Outcome("query_sql_db", query, "raise", "AttributeError", PyNone, <<>>)}
       ELSE ran

(***************************************************************************)
(* The tool calls the agent runtime can make.                              *)
(***************************************************************************)
Next ==
  \/ \E a \in SetSpecArgs : set_spec(a[1], a[2]) /\ UNCHANGED conv
  \/ show_missing /\ UNCHANGED conv
  \/ build_uri /\ UNCHANGED conv
  \/ connect_db /\ UNCHANGED conv
  \/ \E sp \in ConnectSpecs : connect_with_specs(sp) /\ UNCHANGED conv
  \/ list_sql_database_tables /\ UNCHANGED conv
  \/ \E t \in TableRequests : info_sql_database(t) /\ UNCHANGED conv
  \/ \E q \in SampleQueries : query_sql_checker(q) /\ UNCHANGED conv
  \/ \E q \in SampleQueries : query_sql_db(q) /\ UNCHANGED conv

Spec == Init /\ [][Next]_vars

(***************************************************************************)
(* The read-only guard as a function of the statement text: Init draws a   *)
(* statement made of at most MaxPieces pieces and Classify applies the     *)
(* guard to it.                                                            *)
(***************************************************************************)
MaxPieces == 3

Pieces == { <<"s","e","l","e","c","t">>, <<" ">>, <<";">>, <<"D","R","O","P">>, <<"u","p","d","a","t","e","s">>, <<"t">>, <<"\n">> }

\* the texts made of exactly n pieces
RECURSIVE TextsOf(_)
TextsOf(n) ==
  IF n = 0 THEN {<<>>}
  ELSE {p \o t : p \in Pieces, t \in TextsOf(n - 1)}

Queries == UNION {TextsOf(n) : n \in 0..MaxPieces}

InitGuard ==
  /\ specs = EmptyDict
  /\ uri = PyNone
  /\ connected = FALSE
  /\ allowed_tables = PyNone
  /\ db = NoDb
  /\ everBuilt = FALSE
  /\ conv = NoConv
  /\ out \in {Outcome("input", q, "return", "", PyNone, <<>>) : q \in Queries}

Classify ==
  /\ out.tool = "input"
  /\ out' = Outcome("_is_read_only", out.arg, "return",
                    IF _is_read_only(out.arg) THEN "allowed" ELSE "blocked", PyNone, <<>>)
  /\ UNCHANGED <<specs, uri, connected, allowed_tables, db, everBuilt, conv>>

NextGuard == Classify

SpecGuard == InitGuard /\ [][NextGuard]_vars

(***************************************************************************)
(* Two conversations on the one module-level state: each chat session has  *)
(* its own thread id and message history, and every tool call of either    *)
(* reads and writes the same spec store, URI and handle.                   *)
(***************************************************************************)
\* the fields each conversation supplies for its own database
RaceArgs(c) ==
  { <<"dialect", PyStr(<<"s","q","l","i","t","e">>)>>,
    <<"database", PyStr(IF c = "c1" THEN <<"a",".","d","b">> ELSE <<"b",".","d","b">>)>> }

RaceSetSpec(c, key, value) ==
  /\ set_spec(key, value)
  /\ conv' = [conv EXCEPT !.asked[c] = Put(@, key, value),
                          !.writer = Put(@, key, c),
                          !.caller = c]

RaceBuildUri(c) ==
  /\ build_uri
  /\ conv' = [conv EXCEPT !.builder = IF BuildUri(specs, uri).ok THEN c ELSE @,
                          !.caller = c]

RaceConnectDb(c) ==
  /\ connect_db
  /\ conv' = [conv EXCEPT !.caller = c]

NextRace ==
  \E c \in Conversations :
    \/ \E a \in RaceArgs(c) : RaceSetSpec(c, a[1], a[2])
    \/ RaceBuildUri(c)
    \/ RaceConnectDb(c)

SpecRace == Init /\ [][NextRace]_vars

(***************************************************************************)
(* The spec store tools and the URI builder as functions of the collected  *)
(* specs: Init draws a spec store that differs from a complete one in at   *)
(* most MaxAltered fields, and the tools of the collection phase act on it.*)
(***************************************************************************)
MaxAltered == 1

\* one complete spec store per URI form of _assemble_uri
FullSpecs ==
  { [dialect |-> PyStr(<<"p","g">>), username |-> PyStr(<<"b","@","o">>), password |-> PyStr(<<"s","3","c">>),
     host |-> PyStr(<<"h">>), port |-> PyInt(<<"5","4","3","2">>), database |-> PyStr(<<"d","b">>)],
    [dialect |-> PyStr(<<"M","S","S","Q","L">>), username |-> PyStr(<<"b","@","o">>), password |-> PyStr(<<"s","3","c">>),
     host |-> PyStr(<<"h">>), port |-> PyInt(<<"1","4","3","3">>), database |-> PyStr(<<"d","b">>),
     driver |-> PyStr(<<"O","D","B","C"," ","1","8">>)],
    [dialect |-> PyStr(<<"m","s","s","q","l","+","p","y","o","d","b","c">>), username |-> PyStr(<<"b","@","o">>), password |-> PyStr(<<"s","3","c">>),
     host |-> PyStr(<<"h">>), port |-> PyInt(<<"1","4","3","3">>), database |-> PyStr(<<"d","b">>),
     params |-> PyDict(<< <<<<"d","r","i","v","e","r">>, <<"O","D","B","C"," ","1","8">>>>, <<<<"E","n","c","r","y","p","t">>, <<"n","o">>>> >>)],
    [dialect |-> PyStr(<<"o","r","a","c","l","e">>), username |-> PyStr(<<"b","@","o">>), password |-> PyStr(<<"s","3","c">>),
     host |-> PyStr(<<"h">>), port |-> PyInt(<<"1","5","2","2">>), service_name |-> PyStr(<<"s","v","c">>)],
    [dialect |-> PyStr(<<"s","n","o","w","f","l","a","k","e">>), username |-> PyStr(<<"b","@","o">>), password |-> PyStr(<<"s","3","c">>),
     account |-> PyStr(<<"a","c","c">>), database |-> PyStr(<<"d","b">>), schema |-> PyStr(<<"s">>),
     warehouse |-> PyStr(<<"w","h">>)],
    [dialect |-> PyStr(<<" ","s","q","l","i","t","e">>), database |-> PyStr(<<"w",".","d","b">>)],
    [dialect |-> PyStr(<<"d","u","c","k","d","b">>), database |-> PyStr(<<":","m","e","m","o","r","y",":">>)],
    [dialect |-> PyStr(<<"f","o","o">>), username |-> PyStr(<<"b","@","o">>), password |-> PyStr(<<"s","3","c">>),
     host |-> PyStr(<<"h">>), database |-> PyStr(<<"d","b">>)] }

\* what a field can hold instead: nothing (no such key), None, "", [] or a number
Alterations == {"absent", "none", "empty", "nolist", "number"}

Alter(sp, k, how) ==
  IF how = "absent" THEN [x \in (DOMAIN sp) \ {k} |-> sp[x]]
  ELSE Put(sp, k, CASE how = "none" -> PyNone
                    [] how = "empty" -> PyStr(<<>>)
                    [] how = "nolist" -> PyList(<<>>)
                    [] OTHER -> PyInt(IF k = "password" THEN <<"9","8","7">> ELSE <<"4","2">>))

\* the stores that differ from sp in at most n fields
RECURSIVE Variants(_, _)
Variants(sp, n) ==
  IF n = 0 THEN {sp}
  ELSE LET prev == Variants(sp, n - 1)
       IN prev \cup {Alter(p, k, how) : p \in prev, k \in DOMAIN sp, how \in Alterations}

UriSpecs == UNION {Variants(sp, MaxAltered) : sp \in FullSpecs}

InitUri ==
  /\ specs \in UriSpecs
  /\ uri = PyNone
  /\ connected = FALSE
  /\ allowed_tables = PyNone
  /\ db = NoDb
  /\ everBuilt = FALSE
  /\ conv = NoConv
  /\ out = Outcome("input", PyNone, "return", "", PyNone, <<>>)

\* the password given again, as a text
UriSetSpecArgs == { <<"password", PyStr(<<"t","0","p">>)>> }

NextUri ==
  \/ \E a \in UriSetSpecArgs : set_spec(a[1], a[2]) /\ UNCHANGED conv
  \/ show_missing /\ UNCHANGED conv
  \/ build_uri /\ UNCHANGED conv
  \/ connect_with_specs(specs) /\ UNCHANGED conv

SpecUri == InitUri /\ [][NextUri]_vars

(***************************************************************************)
(* The row cap of query_sql_db as a function of the statement and of the   *)
(* dialect: Init draws a connected state and a statement, and RunQuery     *)
(* hands the statement to query_sql_db.                                    *)
(***************************************************************************)
\* the spec stores the connection was made from: a LIMIT dialect and a TOP one
LimitSpecs == {sp \in FullSpecs : sp["dialect"].val \in {<<" ","s","q","l","i","t","e">>, <<"p","g">>, <<"M","S","S","Q","L">>}}

InitLimit ==
  /\ specs \in LimitSpecs
  /\ uri = PyStr(_assemble_uri(specs).val)
  /\ connected = TRUE
  /\ allowed_tables = PyNone
  /\ db = Handle(uri.val, PyNone)
  /\ everBuilt = TRUE
  /\ conv = NoConv
  /\ out \in {Outcome("input", q, "return", "", PyNone, <<>>) : q \in LimitQueries}

RunQuery ==
  /\ out.tool = "input"
  /\ query_sql_db(out.arg)
  /\ UNCHANGED conv

NextLimit == RunQuery

SpecLimit == InitLimit /\ [][NextLimit]_vars

(***************************************************************************)
(* The spec store under set_spec alone: params and the whitelist given as  *)
(* a text, as None and as the JSON value asked for, among other fields.    *)
(***************************************************************************)
StoreArgs ==
  { <<"dialect", PyStr(<<"m","s","s","q","l">>)>>,
    <<"password", PyStr(<<"s","3","c">>)>>,
    <<"port", PyInt(<<"1","4","3","3">>)>>,
    <<"params", PyStr(<<"E","n","c","r","y","p","t","=","n","o">>)>>,
    <<"params", PyNone>>,
    <<"params", PyDict(<< <<<<"E","n","c","r","y","p","t">>, <<"n","o">>>> >>)>>,
    <<"params", PyDict(<<>>)>>,
    <<"allowed_tables", PyStr(Customers)>>,
    <<"allowed_tables", PyNone>>,
    <<"allowed_tables", PyList(<<Customers>>)>>,
    <<"allowed_tables", PyList(<<>>)>> }

NextStore == \E a \in StoreArgs : set_spec(a[1], a[2]) /\ UNCHANGED conv

SpecStore == Init /\ [][NextStore]_vars

(***************************************************************************)
(* Dialect normalization as a function of the name given: Init draws a     *)
(* spelling of an alias, of a scheme name or of an unknown name, and       *)
(* Normalize applies _normalize_dialect and the template lookup to it.     *)
(***************************************************************************)
UpperChar(c) ==
  IF \E i \in 1..Len(LowerCase) : LowerCase[i] = c
  THEN UpperCase[CHOOSE i \in 1..Len(LowerCase) : LowerCase[i] = c] ELSE c

Upper(s) == [i \in 1..Len(s) |-> UpperChar(s[i])]

\* the ways a name is written: as is, in capitals, capitalized, padded
Spellings(n) ==
  { n, Upper(n), <<UpperChar(Head(n))>> \o Tail(n), <<" ">> \o n \o <<" ">>,
    Upper(n) \o <<"\n">> }

DialectNames ==
  UNION {Spellings(n) : n \in AliasNames \cup TemplateNames \cup {<<"f","o","o">>, <<"d","b","2","+","i","b","m","_","d","b">>}}

InitDialect ==
  /\ specs = EmptyDict
  /\ uri = PyNone
  /\ connected = FALSE
  /\ allowed_tables = PyNone
  /\ db = NoDb
  /\ everBuilt = FALSE
  /\ conv = NoConv
  /\ out \in {Outcome("input", n, "return", "", PyNone, <<>>) : n \in DialectNames}

\* the scheme the name normalizes to, and whether SUPPORTED_TEMPLATES has a
\* required-field list for it
Normalize ==
  /\ out.tool = "input"
  /\ out' = Outcome("_normalize_dialect", out.arg, "return",
                    IF _normalize_dialect(out.arg) \in TemplateNames
                    THEN "validated" ELSE "permissive",
                    _normalize_dialect(out.arg), <<>>)
  /\ UNCHANGED <<specs, uri, connected, allowed_tables, db, everBuilt, conv>>

NextDialect == Normalize

SpecDialect == InitDialect /\ [][NextDialect]_vars

(***************************************************************************)
(* Properties.                                                             *)
(***************************************************************************)
BlockNotice == "BLOCKED: Only read-only queries are permitted."

\* a banned keyword occurs somewhere in the text, in any letter case
MentionsBanned(text) == \E kw \in banned : Contains(Lower(text), kw)

\* some token of the text is a banned keyword, in any letter case
HasBannedToken(text) == \E i \in 1..Len(Lex(text)) : Lower(Lex(text)[i]) \in banned

\* C1: a query_sql_db call made while connected whose text holds a banned
\* keyword anywhere (any statement, any letter case) returns the block notice
\* and never invokes the handle's run.
C1_MutatingTextNeverRuns ==
  (out.tool = "query_sql_db" /\ connected /\ db.open /\ MentionsBanned(out.arg))
    => (out.kind = "return" /\ out.msg = BlockNotice /\ out.calls = <<>>)

\* C2: whenever connect_db returns "Connection failed" the state is
\* disconnected afterwards.
C2_FailedConnectLeavesDisconnected ==
  (out.tool = "connect_db" /\ out.msg = "Connection failed:") => ~connected

\* C3: when connect_with_specs cannot build the URI from the given specs it
\* returns the build failure and makes no connection attempt.
C3_BuildFailureMakesNoConnect ==
  (out.tool = "connect_with_specs" /\ ~out.detail.built)
    => (out.msg = "URI olusturulamadi:" /\ out.calls = <<>>)

\* C4: after a build_uri call that fails no built URI is held.
C4_FailedBuildHoldsNoUri ==
  (out.tool = "build_uri" /\ out.msg = "Could not build URI:") => uri = PyNone

\* C5: after connect_with_specs connects with specs whose allowed_tables is a
\* non-empty list, the handle is restricted to that list and the list is the
\* active whitelist.
C5_ConnectWithSpecsAppliesWhitelist ==
  (/\ out.tool = "connect_with_specs"
   /\ out.msg = "Connected."
   /\ "allowed_tables" \in DOMAIN out.arg
   /\ out.arg["allowed_tables"].kind = "list"
   /\ Truthy(out.arg["allowed_tables"]))
    => (db.include = out.arg["allowed_tables"] /\ allowed_tables = out.arg["allowed_tables"])

\* the request of the last info_sql_database call names a table outside the
\* non-empty active whitelist
NamesDisallowed ==
  /\ out.tool = "info_sql_database"
  /\ Truthy(allowed_tables)
  /\ Range(Requested(out.arg)) \ Range(allowed_tables.val) # {}

\* the last call returned the "not allowed" message, listing exactly the
\* disallowed names and the allowed set, and introspected nothing
RejectedWithoutIntrospection ==
  /\ out.kind = "return"
  /\ out.msg = "Table(s) not allowed:"
  /\ Range(out.detail.not_allowed) = Range(Requested(out.arg)) \ Range(allowed_tables.val)
  /\ out.detail.allowed = allowed_tables.val
  /\ out.calls = <<>>

\* C6 as stated: whenever the active whitelist is non-empty, a call naming a
\* table outside it is rejected without any schema introspection.
C6_DisallowedAlwaysRejected == NamesDisallowed => RejectedWithoutIntrospection

\* C6 as amended: whenever the agent is connected and the active whitelist is
\* non-empty, a call naming a table outside it is rejected without any schema
\* introspection, for any requested table.
C6_DisallowedRejectedWhenConnected ==
  (NamesDisallowed /\ connected /\ db.open) => RejectedWithoutIntrospection

\* a connected call that mixes an allowed and a disallowed table was rejected
C6_Witness ==
  /\ NamesDisallowed /\ connected /\ db.open
  /\ out.arg = <<"C","u","s","t","o","m","e","r","s",","," ","O","r","d","e","r","s">>
  /\ allowed_tables = PyList(<<Customers>>)
  /\ out.msg = "Table(s) not allowed:"

\* C7: the URI is None unless some build_uri has succeeded; connected implies
\* a live handle and a URI built before the connection; initially the URI is
\* None, connected is false and no handle is held.
C7_UriAndConnectionInvariant ==
  /\ uri # PyNone => everBuilt
  /\ connected => (db.open /\ everBuilt /\ uri # PyNone)
  /\ out.tool = "none" => (uri = PyNone /\ ~connected /\ ~db.open)

\* connected after a build and a connect
C7_Witness == connected /\ db.open /\ uri # PyNone /\ out.tool = "connect_db"

\* C8: every tool call returns a string; no exception leaves a tool.
C8_ToolsNeverRaise == out.kind = "return"

\* C9: set_spec and show_missing never change the URI, the connected flag or
\* the handle; only build_uri or connect_with_specs change the URI; only
\* connect_db or connect_with_specs change the connected flag and the handle.
C9_NoAutomaticAdvance ==
  [][/\ out'.tool \in {"set_spec", "show_missing"} => UNCHANGED <<uri, connected, db>>
     /\ uri' # uri => out'.tool \in {"build_uri", "connect_with_specs"}
     /\ (connected' # connected \/ db' # db)
          => out'.tool \in {"connect_db", "connect_with_specs"}]_vars

\* a field was stored while connected, and the connection is still there
C9_Witness ==
  /\ out.tool = "set_spec" /\ out.msg = "Spec set."
  /\ connected /\ db.open /\ uri # PyNone

\* C10: the guard blocks a statement exactly when one of its tokens is a
\* banned keyword, in any letter case.
C10_BlocksExactlyBannedTokens ==
  out.tool = "_is_read_only" => ((out.msg = "blocked") <=> HasBannedToken(out.arg))


\* C11: no tool call removes a stored spec field: every field of the spec
\* store before a call is still a field of the store after it.
C11_NoToolRemovesField ==
  [][\A k \in DOMAIN specs : k \in DOMAIN specs']_vars


\* C12: with two conversations on the one spec store, every stored field
\* holds the value of whichever conversation wrote it last, a successful
\* build_uri builds the URI from that store and a successful connect_db
\* connects with that URI, whichever conversation issues the call; so a
\* conversation whose field was overwritten by the other builds from and
\* connects with the other's value (the witness below is such an interleaving).
C12_SharedStoreServesLastWriter ==
  /\ \A k \in DOMAIN specs :
       k \in DOMAIN conv.writer /\ specs[k] = conv.asked[conv.writer[k]][k]
  /\ (out.tool = "build_uri" /\ out.msg = "URI built:")
       => uri = PyStr(_assemble_uri(specs).val)
  /\ (out.tool = "connect_db" /\ out.msg = "Connected.") => db.uri = uri.val

\* conversation c1 supplied a.db, c2 overwrote the field with b.db, and the
\* build and the connect issued by c1 used b.db
C12_Witness ==
  /\ out.tool = "connect_db" /\ out.msg = "Connected."
  /\ conv.caller = "c1" /\ conv.builder = "c1"
  /\ Get(conv.asked["c1"], "database", PyNone) = PyStr(<<"a",".","d","b">>)
  /\ Get(conv.writer, "database", "none") = "c2"
  /\ uri = PyStr(<<"s","q","l","i","t","e",":","/","/","/","b",".","d","b">>)
  /\ db.uri = <<"s","q","l","i","t","e",":","/","/","/","b",".","d","b">>


\* the text a stored value shows as in an echo, if it is a text or a number
Shown(v) == IF v.kind \in {"str", "int"} THEN v.val ELSE <<>>

\* the raw password held by the spec store, if there is one
RawPassword == Shown(Get(specs, "password", PyNone))

SupportedDialect ==
  /\ Truthy(Get(specs, "dialect", PyNone))
  /\ specs["dialect"].kind = "str"
  /\ _normalize_dialect(specs["dialect"].val) \in TemplateNames

\* the required fields of the store's dialect, in the template's order
RequiredFields == SUPPORTED_TEMPLATES(_normalize_dialect(specs["dialect"].val))

\* the field holds a non-empty value: it is there and is not None, "" or []
HoldsValue(k) ==
  k \in DOMAIN specs /\ specs[k] \notin {PyNone, PyStr(<<>>), PyList(<<>>)}

\* C14: for a supported dialect show_missing reports 'All required fields
\* present.' exactly when every required field of that dialect holds a
\* non-empty value; when no dialect is set it reports only that the dialect
\* is missing.
C14_ShowMissingExact ==
  out.tool = "show_missing" =>
    /\ SupportedDialect =>
         /\ out.kind = "return"
         /\ (out.msg = "All required fields present.")
              <=> (\A i \in 1..Len(RequiredFields) : HoldsValue(RequiredFields[i]))
    /\ ~Truthy(Get(specs, "dialect", PyNone))
         => (out.kind = "return" /\ out.msg = "Missing: dialect")

\* show_missing found a required field holding "" on a supported dialect
C14_Witness ==
  /\ out.tool = "show_missing" /\ SupportedDialect
  /\ out.msg = "Missing:"
  /\ \E i \in 1..Len(RequiredFields) :
       /\ RequiredFields[i] \in DOMAIN specs
       /\ specs[RequiredFields[i]] = PyStr(<<>>)


\* the required fields of the store's dialect that hold no value, in the
\* order show_missing lists them
MissingFields == SelectSeq(RequiredFields, LAMBDA k : ~HoldsValue(k))

\* C15: for a supported dialect build_uri fails exactly when show_missing
\* would list a missing field, and the failure names exactly those fields;
\* when every required field is present build_uri succeeds and stores the URI.
C15_BuildFailsExactlyOnMissing ==
  (out.tool = "build_uri" /\ SupportedDialect) =>
    IF MissingFields # <<>>
    THEN out.msg = "Could not build URI:" /\ out.detail = <<"ValueError", MissingFields>>
    ELSE out.msg = "URI built:" /\ uri # PyNone


\* the positions in a built URI of the '@' that ends the credentials and of
\* the ':' that separates username and password (0 when there is none)
AtSign(u) == FindChar(u, "@")
PasswordColon(u) ==
  LET start == FindChar(u, ":") + 2
      between == {i \in (start + 1)..(AtSign(u) - 1) : u[i] = ":"}
  IN IF between = {} THEN 0 ELSE CHOOSE i \in between : \A j \in between : i <= j

\* the URI with only the password segment replaced by '***'
PasswordMasked(u) ==
  SubSeq(u, 1, PasswordColon(u)) \o <<"*","*","*">> \o SubSeq(u, AtSign(u), Len(u))

\* C19: the confirmation of a successful build_uri shows the URI with only
\* the password segment (between the ':' after the username and the '@')
\* replaced by '***': scheme, '//', username and everything from '@' on are
\* echoed unchanged.
C19_MasksOnlyPassword ==
  (out.tool = "build_uri" /\ out.msg = "URI built:" /\ PasswordColon(uri.val) > 0)
    => out.detail = PasswordMasked(uri.val)

\* C20: building an Oracle URI from specs that hold username, password, host
\* and service_name but no port succeeds, with the default port 1521 after
\* the host.
C20_OracleDefaultPort ==
  (/\ out.tool = "build_uri"
   /\ Get(specs, "dialect", PyNone) = PyStr(<<"o","r","a","c","l","e">>)
   /\ \A k \in {"username", "password", "host", "service_name"} :
        k \in DOMAIN specs /\ specs[k].kind = "str" /\ specs[k].val # <<>>
   /\ "port" \notin DOMAIN specs)
    => (/\ out.msg = "URI built:"
        /\ uri # PyNone
        /\ Contains(uri.val, <<"@">> \o specs["host"].val \o <<":","1","5","2","1","/">>))


\* the statement has the keyword as one of its words, in any letter case
HasKeyword(text, kw) == \E i \in 1..Len(Lex(text)) : Lower(Lex(text)[i]) = kw

\* the stated row-cap condition: 'select' occurs, 'count(' does not, and the
\* statement has neither a LIMIT nor a TOP keyword
CapCondition(text) ==
  /\ Contains(Lower(text), <<"s","e","l","e","c","t">>)
  /\ ~Contains(Lower(text), <<"c","o","u","n","t","(">>)
  /\ ~HasKeyword(text, <<"l","i","m","i","t">>)
  /\ ~HasKeyword(text, <<"t","o","p">>)

\* the last call was a query_sql_db that handed a statement to db.run
RanQuery == out.tool = "query_sql_db" /\ out.calls # <<>>

\* the statement handed to db.run
Ran == out.calls[1].arg

\* C16: query_sql_db changes the statement it runs exactly when the statement
\* contains 'select', no 'count(' and neither a LIMIT nor a TOP keyword,
\* whatever whitespace surrounds the keyword; otherwise it runs it unchanged.
C16_CapExactlyOnCondition ==
  RanQuery => ((Ran # out.arg) <=> CapCondition(out.arg))

\* the statement with its first 'select ' of any letter case replaced
FirstSelect(text) ==
  CHOOSE i \in 1..Len(text) :
    /\ Lower(SubSeq(text, i, i + 6)) = <<"s","e","l","e","c","t"," ">>
    /\ \A j \in 1..(i - 1) : Lower(SubSeq(text, j, j + 6)) # <<"s","e","l","e","c","t"," ">>

TopCapped(text) ==
  SubSeq(text, 1, FirstSelect(text) - 1) \o <<"S","E","L","E","C","T"," ","T","O","P"," ","5","0"," ">>
    \o SubSeq(text, FirstSelect(text) + 7, Len(text))

\* C17: on a dialect other than postgresql, mysql, sqlite and duckdb, a
\* statement meeting the row-cap condition is run with its first 'select ',
\* in any letter case and at any position, replaced by 'SELECT TOP 50 '.
C17_TopOnOtherDialects ==
  (/\ RanQuery
   /\ DialectName(db.uri) \notin LimitDialects
   /\ CapCondition(out.arg)
   /\ Contains(Lower(out.arg), <<"s","e","l","e","c","t"," ">>))
    => Ran = TopCapped(out.arg)

\* C18: on postgresql, mysql, sqlite and duckdb a statement meeting the
\* row-cap condition is run with every trailing semicolon, space, tab and
\* newline removed and ' LIMIT 50' appended.
C18_LimitAfterStrippedTail ==
  (RanQuery /\ DialectName(db.uri) \in LimitDialects /\ CapCondition(out.arg))
    => Ran = RStripChars(out.arg, {";", " ", "\t", "\n"}) \o <<" ","L","I","M","I","T"," ","5","0">>


\* the canonical scheme of a lower-case alias or scheme name
Canonical(n) == IF n \in AliasNames THEN ALIAS_TO_DIALECT(n) ELSE n

\* C21: any letter-case spelling of an alias or of a canonical scheme name
\* normalizes to the same canonical scheme, which has a required-field list;
\* any other name passes through unchanged without required-field
\* validation; and normalizing the result again changes nothing.
C21_NormalizationIgnoresCase ==
  out.tool = "_normalize_dialect" =>
    LET name == Lower(Strip(out.arg)) IN
    /\ name \in AliasNames \cup TemplateNames
         => (out.detail = Canonical(name) /\ out.msg = "validated")
    /\ name \notin AliasNames \cup TemplateNames
         => (out.detail = Strip(out.arg) /\ out.msg = "permissive")
    /\ _normalize_dialect(out.detail) = out.detail


\* the spec store has the shape of the example in connect_with_specs's
\* documentation: mssql+pyodbc, the five network fields given, the ODBC
\* driver inside params and no top-level driver
DocumentedShape(sp) ==
  /\ DOMAIN sp = {"dialect", "username", "password", "host", "port", "database", "params"}
  /\ sp["dialect"] = PyStr(<<"m","s","s","q","l","+","p","y","o","d","b","c">>)
  /\ \A k \in {"username", "password", "host", "database"} :
       sp[k].kind = "str" /\ sp[k].val # <<>>
  /\ sp["port"].kind = "int"
  /\ sp["params"].kind = "dict"
  /\ \E i \in 1..Len(sp["params"].val) : sp["params"].val[i][1] = <<"d","r","i","v","e","r">>

\* C22: connect_with_specs on specs of the documented shape builds the URI
\* (no missing-field rejection) and attempts a connection.
C22_DocumentedShapeAccepted ==
  (out.tool = "connect_with_specs" /\ DocumentedShape(out.arg))
    => (out.detail.built /\ out.calls # <<>>)


\* the value is of the wrong type for the key
WrongType(key, value) ==
  \/ key = "params" /\ value.kind # "dict"
  \/ key = "allowed_tables" /\ value.kind # "list"

\* C23: a set_spec with a non-mapping value for 'params' or a non-list value
\* for 'allowed_tables' returns a validation error without raising and
\* leaves the spec store and the active whitelist unchanged; every other
\* set_spec stores the value under the key, leaves the other fields alone
\* and, for 'allowed_tables', makes the value the active whitelist.
C23_SetSpecValidates ==
  [][out'.tool = "set_spec" =>
       LET key == out'.arg[1]
           value == out'.arg[2]
       IN /\ out'.kind = "return"
          /\ IF WrongType(key, value)
             THEN /\ out'.msg \in {"For 'params', provide a JSON object (dict).",
                                   "For 'allowed_tables', provide a JSON array of table names."}
                  /\ UNCHANGED <<specs, allowed_tables>>
             ELSE /\ out'.msg = "Spec set."
                  /\ DOMAIN specs' = DOMAIN specs \cup {key}
                  /\ specs'[key] = value
                  /\ \A k \in DOMAIN specs \ {key} : specs'[k] = specs[k]
                  /\ allowed_tables' = IF key = "allowed_tables" THEN value
                                       ELSE allowed_tables]_vars

\* a text given for 'params' was refused while the store holds a params dict
C23_Witness ==
  /\ out.tool = "set_spec" /\ out.arg = <<"params", PyStr(<<"E","n","c","r","y","p","t","=","n","o">>)>>
  /\ out.msg = "For 'params', provide a JSON object (dict)."
  /\ "params" \in DOMAIN specs /\ specs["params"].kind = "dict"
  /\ allowed_tables = PyList(<<Customers>>)


MemoryUri == <<"s","q","l","i","t","e",":","/","/","/",":","m","e","m","o","r","y",":">>

\* C24: with dialect 'sqlite' and database ':memory:' stored, build_uri
\* builds 'sqlite:///:memory:'; a connect_db on that URI with no whitelist
\* that the database accepts ends connected on a handle of that URI; and a
\* following list_sql_database_tables reports no tables.
C24_InMemoryScenario ==
  /\ (/\ out.tool = "build_uri"
      /\ Get(specs, "dialect", PyNone) = PyStr(<<"s","q","l","i","t","e">>)
      /\ Get(specs, "database", PyNone) = PyStr(<<":","m","e","m","o","r","y",":">>))
       => (out.msg = "URI built:" /\ uri = PyStr(MemoryUri))
  /\ (/\ out.tool = "connect_db"
      /\ uri = PyStr(MemoryUri)
      /\ ~Truthy(allowed_tables)
      /\ out.msg = "Connected.")
       => (connected /\ db = Handle(MemoryUri, allowed_tables))
  /\ (/\ out.tool = "list_sql_database_tables"
      /\ connected
      /\ db = Handle(MemoryUri, PyNone))
       => (out.kind = "return" /\ out.msg = "(no usable tables found)")

\* the state the four calls and the listing lead to from the initial state
C24_Witness ==
  /\ out.tool = "list_sql_database_tables"
  /\ out.msg = "(no usable tables found)"
  /\ specs = [dialect |-> PyStr(<<"s","q","l","i","t","e">>), database |-> PyStr(<<":","m","e","m","o","r","y",":">>)]
  /\ uri = PyStr(MemoryUri)
  /\ connected
  /\ db = Handle(MemoryUri, PyNone)
  /\ allowed_tables = PyNone


\* C25: whenever connected is true, the live handle was opened from the URI
\* the state currently stores.
C25_HandleOpenedFromStoredUri ==
  connected => (db.open /\ uri # PyNone /\ db.uri = uri.val)

\* C26: whenever connected is true, the whitelist info_sql_database
\* enforces, the table restriction the live handle was opened with and the
\* allowed_tables value of the spec store are the same.
C26_WhitelistsAgree ==
  connected =>
    /\ db.include = allowed_tables
    /\ Get(specs, "allowed_tables", PyNone) = allowed_tables


QueryTools ==
  {"list_sql_database_tables", "info_sql_database", "query_sql_checker", "query_sql_db"}

\* C27: query_sql_db invokes the handle's run only while connected is true
\* and a handle is held; while not connected it answers with the
\* not-connected error whatever the statement, before the read-only check
\* and before any rewrite; and the four query tools leave specs, uri,
\* connected and the whitelist unchanged.
C27_QueriesOnlyWhenConnected ==
  [][/\ (out'.tool = "query_sql_db" /\ out'.calls # <<>>) => (connected /\ db.open)
     /\ (out'.tool = "query_sql_db" /\ ~(connected /\ db.open))
          => out' = NotConnected("query_sql_db", out'.arg)
     /\ out'.tool \in QueryTools
          => UNCHANGED <<specs, uri, connected, allowed_tables, db>>]_vars

\* a statement was handed to run, with its row cap, while connected
C27_Witness ==
  /\ out.tool = "query_sql_db" /\ out.calls # <<>>
  /\ out.calls[1].op = "run" /\ out.calls[1].arg # out.arg
  /\ connected /\ db.open

====
